---- MODULE Spec2Model ----
(***************************************************************************)
(* Model of the user-folder assignment protocol of                         *)
(* user_assignment_script.py: find_and_assign_user and the helpers it      *)
(* calls, against an S3 backend and a mounted-filesystem backend.          *)
(*                                                                         *)
(* Strings are sequences of tokens (a token stands for a run of            *)
(* characters), so that strip(), lower() and split('\n')[0] are computed   *)
(* rather than assumed.  A folder "user<N>" is the number N.               *)
(***************************************************************************)
EXTENDS Integers, Sequences, FiniteSets, TLC

\* ------------------------------------------------------------------ bounds
NumFolders == 2      \* folders user1 .. user<NumFolders> may exist per backend
MaxRuns == 3         \* invocations of find_and_assign_user in one behaviour
MaxEnv == 1          \* changes the environment makes in one behaviour

\* ------------------------------------------------------------------ domains
Procs == {1, 2}
Backends == {"s3", "mount"}
FolderNums == 1..NumFolders
None == -1           \* Python None for assigned_user
NoFolder == None     \* "no folder" in a history entry that is not about a folder

\* os.environ of each session; a session's environment does not change.
VARIABLES
    USERNAME,            \* [Procs -> the USERNAME variable, before lower()]
    SKIP_S3_OPERATIONS   \* [Procs -> "0" or "1"]

osVars == <<USERNAME, SKIP_S3_OPERATIONS>>

\* The sessions' names unless a specification says otherwise.
DefaultNames == [p \in Procs |-> IF p = 1 THEN <<"Alice">> ELSE <<"error">>]

PyNone == <<"<None>">>          \* Python None where a str is expected
WS == {" ", "nl"}               \* whitespace tokens; "nl" is '\n'

\* ------------------------------------------------------------------ strings
LowerTok(t) ==
    IF t = "Alice" THEN "alice"
    ELSE IF t = "ImageBuilderTest" THEN "imagebuildertest"
    ELSE t

Lower(s) == [i \in DOMAIN s |-> LowerTok(s[i])]

RECURSIVE LStrip(_)
LStrip(s) == IF s # <<>> /\ Head(s) \in WS THEN LStrip(Tail(s)) ELSE s

RECURSIVE RStrip(_)
RStrip(s) ==
    IF s # <<>> /\ s[Len(s)] \in WS THEN RStrip(SubSeq(s, 1, Len(s) - 1)) ELSE s

Strip(s) == RStrip(LStrip(s))

\* s.split('\n')[0]
RECURSIVE FirstLine(_)
FirstLine(s) ==
    IF s = <<>> \/ Head(s) = "nl" THEN <<>> ELSE <<Head(s)>> \o FirstLine(Tail(s))

\* truthiness of an Optional[str]
Truthy(s) == s # PyNone /\ s # <<>>

get_current_username(p) == Lower(USERNAME[p])

\* f"{current_username}\nClaimed at: {datetime.now().isoformat()}"
MarkerContent(current_username) == current_username \o <<"nl", "claimed_at">>

\* ------------------------------------------------------------------ state
VARIABLES
    s3Status,      \* "ok", "down" (client cannot be initialised), "listfail"
    mountStatus,   \* "ok", "down" (mount path missing or empty), "listfail"
    children,      \* [Backends -> SUBSET FolderNums]: user<N> folders that exist
    marker,        \* [Backends -> [FolderNums -> [exists, body]]]: taken_by.txt
    readErr,       \* [Backends -> [FolderNums -> error raised when reading]]
    putFail,       \* SUBSET (Backends \X FolderNums): marker writes that fail
    localFail,     \* SUBSET FolderNums: local C:/AppStreamUsers writes that fail
    envSteps,      \* number of environment changes so far
    runs,          \* number of invocations started so far
    pc,            \* position of each session inside find_and_assign_user
    backend,       \* backend the session is searching
    user_folders,  \* the session's sorted folder list
    idx,           \* loop index into user_folders
    assigned_user, \* the session's assigned_user (None or N)
    localTaken,    \* [Procs -> SUBSET FolderNums]: local taken_by.txt written
    log,           \* history: operations of the current invocation
    snap,          \* history: backend state when the invocation started
    prev,          \* history: outcome of the session's previous invocation
    quiet,         \* history: nothing changed since the previous invocation
    lastWriter     \* history: session that last wrote each backend marker

envVars == <<s3Status, mountStatus, children, marker, readErr, putFail,
             localFail, envSteps>>
runVars == <<runs, pc, backend, user_folders, idx, assigned_user, localTaken,
             log, snap, prev, quiet, lastWriter>>

\* State of the other components, at rest while the resolver runs.
VARIABLES
    dirEntries,    \* children of ibd_root/ as the backend yields them: [name, is_dir]
    enumerated,    \* what an enumerator returned: [fn, ok, folders]
    remoteObjects, \* objects under the folder as listed: [kind, mtime, local, fails]
    utcOffset,     \* local time minus UTC on the machine that runs the mirror
    mirror,        \* what a mirror run did: counters and the objects it touched
    caseFlag,      \* [Cases -> mtime of 01_labeling_complete.txt, 0 when absent]
    syncFlags,     \* [Cases -> modes whose 02_synced_to_<mode>.txt exists]
    tracking,      \* sync_tracking.json as persisted: [exists, entries, sessions, last_sync_mode]
    clock,         \* the current time
    syncRuns,      \* runs of sync_completed_cases so far
    touches,       \* changes the user made to completion flags so far
    lastSync       \* history: the inputs and the outcome of the latest run

enumVars == <<dirEntries, enumerated>>
mirrorVars == <<remoteObjects, utcOffset, mirror>>
syncVars == <<caseFlag, syncFlags, tracking, clock, syncRuns, touches, lastSync>>
partVars == <<enumVars, mirrorVars, syncVars, osVars>>
vars == <<envVars, runVars, partVars>>

\* No enumeration has run.
NotEnumerated == [fn |-> "none", ok |-> TRUE, folders |-> <<>>]
EnumIdle == dirEntries = <<>> /\ enumerated = NotEnumerated

\* The counters of a mirror run that has not looked at any object.
MirrorStart(fn) ==
    [fn |-> fn, aborted |-> FALSE, downloaded |-> 0, skipped |-> 0, failed |-> 0,
     attempted |-> {}, transferred |-> {}, uploaded |-> {}]
MirrorIdle == remoteObjects = <<>> /\ utcOffset = 0 /\ mirror = MirrorStart("none")

NumCases == 2        \* case directories in the user's home
Cases == 1..NumCases

\* No sync_tracking.json yet (load_sync_tracking then returns {}).
NoTracking ==
    [exists |-> FALSE, entries |-> <<>>, sessions |-> 0, last_sync_mode |-> "none"]
NotSynced ==
    [ran |-> FALSE, mode |-> "none", loaded |-> TRUE, saved |-> FALSE, raised |-> FALSE,
     returned |-> TRUE, attempted |-> {}, skipped |-> {}, failing |-> [c \in Cases |-> {}],
     flagged |-> {}, doc |-> <<>>, before |-> {}, syncedAt |-> [c \in Cases |-> 0]]
\* The cases with flags[c] = 1 were marked complete at time 1, nothing was ever
\* synced.
SyncStart(flags) ==
    /\ caseFlag = flags
    /\ syncFlags = [c \in Cases |-> {}]
    /\ tracking = NoTracking
    /\ clock = 2
    /\ syncRuns = 0
    /\ touches = 0
    /\ lastSync = NotSynced

SyncIdle == SyncStart([c \in Cases |-> 0])

PartsIdle == EnumIdle /\ MirrorIdle /\ SyncIdle

Absent == [exists |-> FALSE, body |-> <<>>]
Object(body) == [exists |-> TRUE, body |-> body]

ReadErrors == {"none", "AccessDenied", "Other"}


\* ------------------------------------------------------------------ helpers
\* Mutant: the client is initialised in the test environment too.
initialize_s3_client_ProductionOnly(status, skip_s3, username) == status # "down"

\* initialize_s3_client: None in the test environment (lines 218-226), else a
\* client, or None when the bucket cannot be reached.
initialize_s3_client(status, skip_s3, username) ==
    IF skip_s3 = "1" \/ Lower(username) = <<"imagebuildertest">> THEN FALSE
    ELSE IF username = <<"ImageBuilderTest">> THEN FALSE
    ELSE status # "down"

\* check_s3_mount_available: the mount path, or None.
check_s3_mount_available(status) == status # "down"

\* key=lambda x: int(x[4:])
SortKey(user_folder) == user_folder

RECURSIVE Insert(_, _)
Insert(sorted, x) ==
    IF sorted = <<>> THEN <<x>>
    ELSE IF SortKey(x) < SortKey(Head(sorted)) THEN <<x>> \o sorted
    ELSE <<Head(sorted)>> \o Insert(Tail(sorted), x)

\* user_folders.sort(key=...): a stable sort of the listing.
RECURSIVE SortFolders(_)
SortFolders(listing) ==
    IF listing = <<>> THEN <<>>
    ELSE Insert(SortFolders(SubSeq(listing, 1, Len(listing) - 1)),
                listing[Len(listing)])

\* The orders in which a backend may list the folders that exist.
Orders(S) ==
    {o \in [1..Cardinality(S) -> S] : \A i, j \in DOMAIN o : i # j => o[i] # o[j]}

list_user_folders_s3(listing, status) ==
    IF status = "listfail" THEN <<>> ELSE SortFolders(listing)

list_user_folders_mount(listing, status) ==
    IF status = "listfail" THEN <<>> ELSE SortFolders(listing)

\* Mutant: a missing marker is always answered with NoSuchKey.
GetObject_AbsenceFirst(slot, err) ==
    IF ~slot.exists THEN [code |-> "NoSuchKey", body |-> <<>>]
    ELSE IF err # "none" THEN [code |-> err, body |-> <<>>]
    ELSE [code |-> "ok", body |-> slot.body]

\* s3_client.get_object on the marker key: the body, or the ClientError code.
GetObject(slot, err) ==
    IF err # "none" THEN [code |-> err, body |-> <<>>]
    ELSE IF ~slot.exists THEN [code |-> "NoSuchKey", body |-> <<>>]
    ELSE [code |-> "ok", body |-> slot.body]

\* Mutant: every error of get_object is taken for "no marker".
check_user_taken_s3_ErrorsMeanFree(slot, err) ==
    LET response == GetObject(slot, err) IN
    IF response.code = "ok" THEN <<TRUE, Strip(response.body)>>
    ELSE <<FALSE, PyNone>>

\* check_user_taken_s3 -> <<is_taken, taken_by_content>>
check_user_taken_s3(slot, err) ==
    LET response == GetObject(slot, err) IN
    IF response.code = "ok" THEN <<TRUE, Strip(response.body)>>
    ELSE IF response.code = "NoSuchKey" THEN <<FALSE, PyNone>>
    ELSE IF response.code = "AccessDenied" THEN <<TRUE, <<"access_denied">>>>
    ELSE <<TRUE, <<"error">>>>

\* check_user_taken_mount -> <<is_taken, taken_by_content>>
check_user_taken_mount(slot, err) ==
    IF err # "none" THEN <<TRUE, <<"error">>>>
    ELSE IF slot.exists THEN <<TRUE, Strip(slot.body)>>
    ELSE <<FALSE, PyNone>>

CheckUserTaken(b, slot, err) ==
    IF b = "s3" THEN check_user_taken_s3(slot, err)
    ELSE check_user_taken_mount(slot, err)

\* The test of lines 673-676 without the comparison of the names.
OwnedByCurrent_AnyOwner(is_taken, taken_by_content, current_username) ==
    is_taken /\ Truthy(taken_by_content)

\* First pass: "if is_taken and taken_by_content: ... == current_username".
OwnedByCurrent(is_taken, taken_by_content, current_username) ==
    /\ is_taken
    /\ Truthy(taken_by_content)
    /\ Lower(Strip(FirstLine(taken_by_content))) = current_username

\* claim_user_folder_s3: put_object, then the local taken_by.txt.
\* put: the backend marker was written; local: the local file was written;
\* ret: the function's return value.
claim_user_folder_s3(putOK, localOK) ==
    IF ~putOK THEN [put |-> FALSE, local |-> FALSE, ret |-> FALSE]
    ELSE IF ~localOK THEN [put |-> TRUE, local |-> FALSE, ret |-> FALSE]
    ELSE [put |-> TRUE, local |-> TRUE, ret |-> TRUE]

\* claim_user_folder_mount: write_text on the mount, then the local file.
claim_user_folder_mount(putOK, localOK) ==
    IF ~putOK THEN [put |-> FALSE, local |-> FALSE, ret |-> FALSE]
    ELSE IF ~localOK THEN [put |-> TRUE, local |-> FALSE, ret |-> FALSE]
    ELSE [put |-> TRUE, local |-> TRUE, ret |-> TRUE]

ClaimUserFolder(b, putOK, localOK) ==
    IF b = "s3" THEN claim_user_folder_s3(putOK, localOK)
    ELSE claim_user_folder_mount(putOK, localOK)

\* Mutant: a conditional put that keeps a marker already there.
PutMarker_IfAbsent(old, content) == IF old.exists THEN old ELSE Object(content)

\* put_object / write_text: the marker after a successful write.
PutMarker(old, content) == Object(content)

\* Mutant: the fallback condition with its polarity inverted.
NeedsMountFallback_Inverted(assigned) == assigned # None

\* "if not assigned_user:" after the S3 branch: go on to the mount.
NeedsMountFallback(assigned) == assigned = None

\* Mutant: the loop stays on the folder whose claim failed.
AfterFailedClaim_Retry(i) == i

\* The loop index after a claim that returned False.
AfterFailedClaim(i) == i + 1

\* A history entry: the operation, its backend and folder, its outcome (ok),
\* the owner string a check returned, whether the backend marker was written
\* (put), and the facts at that moment: the marker existed, the read error.
Entry(op, b, f, ok, owner, put, exists, err) ==
    [op |-> op, b |-> b, f |-> f, ok |-> ok, owner |-> owner, put |-> put,
     exists |-> exists, err |-> err]

\* An entry that is not about a folder's marker.
Note(op, b, ok) == Entry(op, b, NoFolder, ok, PyNone, FALSE, FALSE, "none")


\* Lines 735-742: what find_and_assign_user hands back, and the report it
\* prints before "return None".
FinalReport(assigned) ==
    [returned |-> assigned,
     message |-> IF assigned = None
                 THEN "No user{i} folders found in S3 or mount"
                 ELSE ""]

\* Lines 774 and 808-810: the process exits with status 1 when nothing was
\* assigned.
ExitStatus(assigned) == IF assigned = None THEN 1 ELSE 0

\* ------------------------------------------------------------------ initial state
\* The resolver's state before any session has started: the folders kids with
\* the markers marks, no read or write fails; the sessions' environments.
InitSessions(s3, kids, marks, names, skips) ==
    /\ USERNAME = names
    /\ SKIP_S3_OPERATIONS = skips
    /\ s3Status = s3
    /\ mountStatus = "ok"
    /\ children = kids
    /\ marker = marks
    /\ readErr = [b \in Backends |-> [f \in FolderNums |-> "none"]]
    /\ putFail = {}
    /\ localFail = {}
    /\ envSteps = 0
    /\ runs = 0
    /\ pc = [p \in Procs |-> "idle"]
    /\ backend = [p \in Procs |-> "s3"]
    /\ user_folders = [p \in Procs |-> <<>>]
    /\ idx = [p \in Procs |-> 1]
    /\ assigned_user = [p \in Procs |-> None]
    /\ localTaken = [p \in Procs |-> {}]
    /\ log = [p \in Procs |-> <<>>]
    /\ snap = [p \in Procs |-> marker]
    /\ prev = [p \in Procs |-> [valid |-> FALSE, result |-> None, claimed |-> NoFolder]]
    /\ quiet = [p \in Procs |-> FALSE]
    /\ lastWriter = [b \in Backends |-> [f \in FolderNums |-> 0]]

\* Sessions of two users in production.
InitBackends(s3, kids, marks) ==
    InitSessions(s3, kids, marks, DefaultNames, [p \in Procs |-> "0"])

\* Every folder present and unclaimed.
InitWith(s3) ==
    InitBackends(s3, [b \in Backends |-> FolderNums],
                 [b \in Backends |-> [f \in FolderNums |-> Absent]])

\* Both backends reachable.
Init == InitWith("ok") /\ PartsIdle

Idle(p) == pc[p] \in {"idle", "done"}
AllIdle == \A p \in Procs : Idle(p)

\* The folder the invocation claimed (claim returned True), or NoFolder.
ClaimedIn(l) ==
    IF \E i \in DOMAIN l : l[i].op = "claim" /\ l[i].ok
    THEN l[CHOOSE i \in DOMAIN l : l[i].op = "claim" /\ l[i].ok].f
    ELSE NoFolder

\* Mutant: after the loops of either backend the invocation tries the mount.
AfterLoops_Again(b) == "mount"

\* Where the invocation goes when a backend's loops end without an assignment:
\* after S3 the mount fallback (line 698), after the mount "return None".
AfterLoops(b) == IF b = "s3" /\ NeedsMountFallback(None) THEN "mount" ELSE "done"

\* ------------------------------------------------------------------ find_and_assign_user
\* Lines 653-663: username, initialize_s3_client, assigned_user = None.
Start(p) ==
    /\ Idle(p)
    /\ runs < MaxRuns
    /\ runs' = runs + 1
    /\ LET s3_client == initialize_s3_client(s3Status, SKIP_S3_OPERATIONS[p],
                                             USERNAME[p]) IN
        /\ pc' = [pc EXCEPT ![p] = IF s3_client THEN "s3_list" ELSE AfterLoops("s3")]
        /\ quiet' = [quiet EXCEPT ![p] = ~s3_client /\ AfterLoops("s3") = "done"]
        /\ log' = [log EXCEPT ![p] =
                      <<Note("init", "s3", s3_client)>>]
    /\ backend' = [backend EXCEPT ![p] = "s3"]
    /\ user_folders' = [user_folders EXCEPT ![p] = <<>>]
    /\ idx' = [idx EXCEPT ![p] = 1]
    /\ assigned_user' = [assigned_user EXCEPT ![p] = None]
    /\ snap' = [snap EXCEPT ![p] = marker]
    /\ prev' = [prev EXCEPT ![p] =
                   [valid |-> pc[p] = "done" /\ quiet[p],
                    result |-> assigned_user[p],
                    claimed |-> ClaimedIn(log[p])]]
    /\ UNCHANGED <<envVars, localTaken, lastWriter, partVars>>

\* Lines 666-668 and 694-695: list_user_folders_s3, "if user_folders:".
ListS3(p) ==
    /\ pc[p] = "s3_list"
    /\ \E listing \in Orders(children["s3"]) :
        LET folders == list_user_folders_s3(listing, s3Status) IN
        /\ user_folders' = [user_folders EXCEPT ![p] = folders]
        /\ pc' = [pc EXCEPT ![p] = IF folders # <<>> THEN "pass1" ELSE AfterLoops("s3")]
        /\ quiet' = [quiet EXCEPT ![p] = folders = <<>> /\ AfterLoops("s3") = "done"]
        /\ log' = [log EXCEPT ![p] =
                      Append(@, Note("list", "s3", folders # <<>>))]
    /\ idx' = [idx EXCEPT ![p] = 1]
    /\ UNCHANGED <<envVars, runs, backend, assigned_user, localTaken, snap, prev,
                   lastWriter, partVars>>

\* Lines 670-681 and 710-721: one iteration of the first pass.
Pass1(p) ==
    /\ pc[p] = "pass1"
    /\ LET b == backend[p]
           user_folder == user_folders[p][idx[p]]
           current_username == get_current_username(p)
           r == CheckUserTaken(b, marker[b][user_folder], readErr[b][user_folder])
           found == OwnedByCurrent(r[1], r[2], current_username)
       IN
        /\ log' = [log EXCEPT ![p] =
                      Append(@, Entry("check1", b, user_folder, r[1], r[2], FALSE,
                                      marker[b][user_folder].exists,
                                      readErr[b][user_folder]))]
        /\ IF found
           THEN /\ assigned_user' = [assigned_user EXCEPT ![p] = user_folder]
                \* ensure_local_taken_by_file: a failure is swallowed
                /\ localTaken' = [localTaken EXCEPT ![p] =
                       IF user_folder \in localFail THEN @ ELSE @ \cup {user_folder}]
                /\ pc' = [pc EXCEPT ![p] = "done"]
                /\ idx' = idx
                /\ quiet' = [quiet EXCEPT ![p] = TRUE]
           ELSE /\ UNCHANGED <<assigned_user, localTaken, quiet>>
                /\ IF idx[p] < Len(user_folders[p])
                   THEN /\ idx' = [idx EXCEPT ![p] = @ + 1]
                        /\ pc' = pc
                   ELSE /\ idx' = [idx EXCEPT ![p] = 1]
                        /\ pc' = [pc EXCEPT ![p] = "pass2"]
    /\ UNCHANGED <<envVars, runs, backend, user_folders, snap, prev, lastWriter,
                   partVars>>

\* Lines 685-688 and 725-728: the check of one iteration of the second pass.
Pass2(p) ==
    /\ pc[p] = "pass2"
    /\ LET b == backend[p]
           user_folder == user_folders[p][idx[p]]
           r == CheckUserTaken(b, marker[b][user_folder], readErr[b][user_folder])
       IN
        /\ log' = [log EXCEPT ![p] =
                      Append(@, Entry("check2", b, user_folder, r[1], r[2], FALSE,
                                      marker[b][user_folder].exists,
                                      readErr[b][user_folder]))]
        /\ IF ~r[1]
           THEN /\ pc' = [pc EXCEPT ![p] = "claim"]
                /\ UNCHANGED <<idx, quiet>>
           ELSE IF idx[p] < Len(user_folders[p])
           THEN /\ idx' = [idx EXCEPT ![p] = @ + 1]
                /\ UNCHANGED <<pc, quiet>>
           ELSE /\ pc' = [pc EXCEPT ![p] = AfterLoops(b)]
                /\ quiet' = [quiet EXCEPT ![p] = AfterLoops(b) = "done"]
                /\ idx' = idx
    /\ UNCHANGED <<envVars, runs, backend, user_folders, assigned_user, localTaken,
                   snap, prev, lastWriter, partVars>>

\* Lines 689-692 and 729-732: claim_user_folder_* on the folder found available.
Claim(p) ==
    /\ pc[p] = "claim"
    /\ LET b == backend[p]
           user_folder == user_folders[p][idx[p]]
           current_username == get_current_username(p)
           c == ClaimUserFolder(b, <<b, user_folder>> \notin putFail,
                                user_folder \notin localFail)
       IN
        /\ marker' = IF c.put
                     THEN [marker EXCEPT ![b][user_folder] =
                              PutMarker(@, MarkerContent(current_username))]
                     ELSE marker
        /\ lastWriter' = IF c.put THEN [lastWriter EXCEPT ![b][user_folder] = p]
                         ELSE lastWriter
        /\ localTaken' = [localTaken EXCEPT ![p] =
                             IF c.local THEN @ \cup {user_folder} ELSE @]
        /\ log' = [log EXCEPT ![p] =
                      Append(@, Entry("claim", b, user_folder, c.ret, PyNone, c.put,
                                      marker[b][user_folder].exists,
                                      readErr[b][user_folder]))]
        /\ LET failed == AfterFailedClaim(idx[p])
               nextPc == IF c.ret THEN "done"
                         ELSE IF failed <= Len(user_folders[p]) THEN "pass2"
                         ELSE AfterLoops(b)
           IN
            /\ assigned_user' = IF c.ret
                                THEN [assigned_user EXCEPT ![p] = user_folder]
                                ELSE assigned_user
            /\ pc' = [pc EXCEPT ![p] = nextPc]
            /\ idx' = IF nextPc = "pass2" THEN [idx EXCEPT ![p] = failed] ELSE idx
            /\ quiet' = [q \in Procs |-> IF q = p THEN nextPc = "done"
                                         ELSE quiet[q] /\ ~c.put]
    /\ UNCHANGED <<s3Status, mountStatus, children, readErr, putFail, localFail,
                   envSteps, runs, backend, user_folders, snap, prev, partVars>>

\* Lines 698-707: check_s3_mount_available, list_user_folders_mount.
MountFallback(p) ==
    /\ pc[p] = "mount"
    /\ LET mount_path == check_s3_mount_available(mountStatus) IN
       \E listing \in Orders(children["mount"]) :
        LET folders == IF mount_path
                       THEN list_user_folders_mount(listing, mountStatus)
                       ELSE <<>>
        IN
        /\ user_folders' = [user_folders EXCEPT ![p] = folders]
        /\ pc' = [pc EXCEPT ![p] = IF folders # <<>> THEN "pass1" ELSE "done"]
        /\ quiet' = [quiet EXCEPT ![p] = folders = <<>>]
        /\ log' = [log EXCEPT ![p] =
                      IF mount_path
                      THEN Append(Append(@, Note("probe", "mount", TRUE)),
                                  Note("list", "mount", folders # <<>>))
                      ELSE Append(@, Note("probe", "mount", FALSE))]
    /\ backend' = [backend EXCEPT ![p] = "mount"]
    /\ idx' = [idx EXCEPT ![p] = 1]
    /\ UNCHANGED <<envVars, runs, assigned_user, localTaken, snap, prev, lastWriter,
                   partVars>>


\* ------------------------------------------------------------------ environment
\* What other actors and the platform do to the backends between invocations.
EnvBodies == {<<" ", "Alice", "nl", "claimed_at">>, MarkerContent(<<"error">>), <<>>}

EnvStep == AllIdle /\ envSteps < MaxEnv /\ envSteps' = envSteps + 1
EnvFrame == /\ quiet' = [p \in Procs |-> FALSE]
            /\ UNCHANGED <<runs, pc, backend, user_folders, idx, assigned_user,
                           localTaken, log, snap, prev, partVars>>

\* The bucket becomes unreachable or unlistable.
EnvS3 ==
    /\ EnvStep
    /\ s3Status = "ok"
    /\ \E st \in {"down", "listfail"} : s3Status' = st
    /\ EnvFrame
    /\ UNCHANGED <<mountStatus, children, marker, readErr, putFail, localFail, lastWriter>>

\* The mount disappears or becomes unlistable.
EnvMount ==
    /\ EnvStep
    /\ mountStatus = "ok"
    /\ \E st \in {"down", "listfail"} : mountStatus' = st
    /\ EnvFrame
    /\ UNCHANGED <<s3Status, children, marker, readErr, putFail, localFail, lastWriter>>

\* An administrator removes user<N> folders from a backend, with their markers.
EnvRemoveFolder ==
    /\ EnvStep
    /\ \E b \in Backends : \E gone \in (SUBSET children[b]) \ {{}} :
          /\ children' = [children EXCEPT ![b] = @ \ gone]
          /\ marker' = [marker EXCEPT ![b] =
                           [f \in FolderNums |-> IF f \in gone THEN Absent ELSE @[f]]]
          /\ lastWriter' = [lastWriter EXCEPT ![b] =
                               [f \in FolderNums |-> IF f \in gone THEN 0 ELSE @[f]]]
    /\ EnvFrame
    /\ UNCHANGED <<s3Status, mountStatus, readErr, putFail, localFail>>

\* Another actor writes a marker.
EnvMarker ==
    /\ EnvStep
    /\ \E b \in Backends : \E f \in FolderNums :
       \E v \in {Object(body) : body \in EnvBodies} :
          /\ v # marker[b][f]
          /\ marker' = [marker EXCEPT ![b][f] = v]
          /\ lastWriter' = [lastWriter EXCEPT ![b][f] = 0]
    /\ EnvFrame
    /\ UNCHANGED <<s3Status, mountStatus, children, readErr, putFail, localFail>>

\* Reading a marker path starts to fail (permission, I/O).
EnvReadErr ==
    /\ EnvStep
    /\ \E b \in Backends : \E f \in FolderNums : \E e \in ReadErrors :
          /\ readErr[b][f] = "none" /\ e # "none"
          /\ b = "mount" => e # "AccessDenied"
          /\ readErr' = [readErr EXCEPT ![b][f] = e]
    /\ EnvFrame
    /\ UNCHANGED <<s3Status, mountStatus, children, marker, putFail, localFail, lastWriter>>

\* Writing a backend marker starts to fail.
EnvPutFail ==
    /\ EnvStep
    /\ \E b \in Backends : \E f \in FolderNums :
          /\ <<b, f>> \notin putFail
          /\ putFail' = putFail \cup {<<b, f>>}
    /\ EnvFrame
    /\ UNCHANGED <<s3Status, mountStatus, children, marker, readErr, localFail, lastWriter>>

\* Writing under C:/AppStreamUsers/user<N> starts to fail.
EnvLocalFail ==
    /\ EnvStep
    /\ \E f \in FolderNums : f \notin localFail /\ localFail' = localFail \cup {f}
    /\ EnvFrame
    /\ UNCHANGED <<s3Status, mountStatus, children, marker, readErr, putFail, lastWriter>>

Step(p) == ListS3(p) \/ Pass1(p) \/ Pass2(p) \/ Claim(p) \/ MountFallback(p)

\* ------------------------------------------------------------------ specifications
\* Invocations run one after another; the environment changes between them.
SeqStart(p) == AllIdle /\ Start(p)

Next ==
    \/ EnvS3 \/ EnvMount \/ EnvRemoveFolder \/ EnvMarker \/ EnvReadErr
    \/ EnvPutFail \/ EnvLocalFail
    \/ \E p \in Procs : SeqStart(p) \/ Step(p)

Spec == Init /\ [][Next]_vars

\* Two sessions launched at about the same time: their invocations interleave.
InitRace == (\E s3 \in {"ok", "down", "listfail"} : InitWith(s3)) /\ PartsIdle

NextRace == \E p \in Procs : Start(p) \/ Step(p)

SpecRace == InitRace /\ [][NextRace]_vars


\* Backends as a session may find them: folders missing, folders claimed by a
\* third identity.  Administrators remove folders between invocations.
OtherIdentity == <<"bob">>

Stocks == [Backends -> [FolderNums -> {Absent, Object(MarkerContent(OtherIdentity))}]]

InitStocked ==
    /\ \E kids \in [Backends -> SUBSET FolderNums] : \E marks \in Stocks :
          /\ \A b \in Backends : \A f \in FolderNums :
                marks[b][f].exists => f \in kids[b]
          /\ InitBackends("ok", kids, marks)
    /\ PartsIdle

NextStocked == EnvRemoveFolder \/ \E p \in Procs : SeqStart(p) \/ Step(p)

SpecStocked == InitStocked /\ [][NextStocked]_vars

\* The interpreter runs an invocation that has started to its return: every
\* call it makes returns or raises.
FairStocked == SpecStocked /\ \A p \in Procs : WF_vars(Step(p))


\* ------------------------------------------------------------------ __main__
\* Lines 781-794: where __main__ mirrors the assigned folder from.
MirrorSource(s3_client, mount_path) ==
    IF s3_client THEN "s3" ELSE IF mount_path THEN "mount" ELSE "none"

\* Lines 774-794: after an assignment __main__ initialises a client again and
\* chooses the mirror by it.  What the chosen mirror transfers is the subject
\* of the mirrors below.
MainMirror(p) ==
    /\ pc[p] = "done"
    /\ assigned_user[p] # None
    /\ \A i \in DOMAIN log[p] : log[p][i].op # "mirror"
    /\ LET s3_client == initialize_s3_client(s3Status, SKIP_S3_OPERATIONS[p],
                                             USERNAME[p])
           mount_path == check_s3_mount_available(mountStatus)
       IN log' = [log EXCEPT ![p] =
                     Append(@, Note("mirror", MirrorSource(s3_client, mount_path), TRUE))]
    /\ UNCHANGED <<envVars, runs, pc, backend, user_folders, idx, assigned_user,
                   localTaken, snap, prev, quiet, lastWriter, partVars>>

\* Sessions in production and in the test environment (SKIP_S3_OPERATIONS set
\* by the batch file, or the image builder's user), against a bucket that is
\* reachable, unreachable, or reachable but not listable.
MainNames == {DefaultNames, [DefaultNames EXCEPT ![1] = <<"ImageBuilderTest">>]}

InitMain ==
    /\ \E s3 \in {"ok", "down", "listfail"} : \E names \in MainNames :
       \E skips \in [Procs -> {"0", "1"}] :
          InitSessions(s3, [b \in Backends |-> FolderNums],
                       [b \in Backends |-> [f \in FolderNums |-> Absent]],
                       names, skips)
    /\ PartsIdle

NextMain == \E p \in Procs : SeqStart(p) \/ Step(p) \/ MainMirror(p)

SpecMain == InitMain /\ [][NextMain]_vars


\* ------------------------------------------------------------------ the enumerators on folder names
\* A name is the sequence of its characters.  Chars lists the characters the
\* names below use in code-point order; "sup2" is U+00B2 (superscript two).
MaxListing == 3      \* children of ibd_root/ in one listing

Chars == <<"0", "1", "2", "3", "A", "U", "e", "r", "s", "u", "sup2">>
DecimalDigits == {"0", "1", "2", "3"}
\* str.isdigit() also accepts digits that int() rejects.
DigitChars == DecimalDigits \cup {"sup2"}

UserPrefix == <<"u", "s", "e", "r">>
UserName(suffix) == UserPrefix \o suffix

ChildNames ==
    {UserName(<<"1">>), UserName(<<"2">>), UserName(<<"3">>),
     UserName(<<"1", "0">>), UserName(<<"0">>), UserPrefix,
     <<"U", "s", "e", "r", "1">>, UserName(<<"A">>), UserName(<<"sup2">>)}

\* What iterdir() can yield: any of the names as a directory, and a plain
\* file whose name has the user<N> form.
ChildEntries ==
    {[name |-> n, is_dir |-> TRUE] : n \in ChildNames}
        \cup {[name |-> UserName(<<"2">>), is_dir |-> FALSE]}

\* folder_name.startswith('user')
StartsWith(s, prefix) ==
    Len(s) >= Len(prefix) /\ SubSeq(s, 1, Len(prefix)) = prefix

\* folder_name[4:]
Suffix(folder_name) == SubSeq(folder_name, Len(UserPrefix) + 1, Len(folder_name))

\* all() over the characters, true of the empty string too.
IsDigit_AllowEmpty(s) == \A i \in DOMAIN s : s[i] \in DigitChars

\* str.isdigit(): non-empty and every character a digit.
IsDigit(s) == s # <<>> /\ \A i \in DOMAIN s : s[i] \in DigitChars

\* The filter of lines 308 and 333.
IsUserFolder(folder_name) ==
    StartsWith(folder_name, UserPrefix) /\ IsDigit(Suffix(folder_name))

CharRank(c) == CHOOSE i \in DOMAIN Chars : Chars[i] = c
DigitValue(c) == CharRank(c) - CharRank("0")

\* int(s) of a string of decimal digits.
RECURSIVE IntOf(_)
IntOf(s) ==
    IF s = <<>> THEN 0
    ELSE 10 * IntOf(SubSeq(s, 1, Len(s) - 1)) + DigitValue(s[Len(s)])

\* int(s) raises ValueError.
IntRaises(s) == \E i \in DOMAIN s : s[i] \notin DecimalDigits

\* A sort key that looks at the first digit only.
NameSortKey_FirstDigit(folder_name) == DigitValue(Head(Suffix(folder_name)))

\* key=lambda x: int(x[4:])
NameSortKey(folder_name) == IntOf(Suffix(folder_name))

RECURSIVE InsertName(_, _)
InsertName(sorted, x) ==
    IF sorted = <<>> THEN <<x>>
    ELSE IF NameSortKey(x) < NameSortKey(Head(sorted)) THEN <<x>> \o sorted
    ELSE <<Head(sorted)>> \o InsertName(Tail(sorted), x)

\* user_folders.sort(key=...): stable; any ValueError of the key is raised.
RECURSIVE SortNames(_)
SortNames(names) ==
    IF names = <<>> THEN <<>>
    ELSE InsertName(SortNames(SubSeq(names, 1, Len(names) - 1)), names[Len(names)])

\* Byte-wise order of two names, the order in which S3 lists keys.
RECURSIVE LexLess(_, _)
LexLess(a, b) ==
    IF b = <<>> THEN FALSE
    ELSE IF a = <<>> THEN TRUE
    ELSE IF Head(a) # Head(b) THEN CharRank(Head(a)) < CharRank(Head(b))
    ELSE LexLess(Tail(a), Tail(b))

\* response['CommonPrefixes']: the directories under ibd_root/, in key order.
RECURSIVE CommonPrefixes(_)
CommonPrefixes(S) ==
    IF S = {} THEN <<>>
    ELSE LET first == CHOOSE n \in S : \A m \in S \ {n} : LexLess(n, m)
         IN <<first>> \o CommonPrefixes(S \ {first})

\* The sorted list, or [] when the sort raised (the except clauses).
SortedOrEmpty(names) ==
    IF \E i \in DOMAIN names : IntRaises(Suffix(names[i]))
    THEN <<>>
    ELSE SortNames(names)

\* list_user_folders_s3 on names; listed is FALSE when list_objects raised.
UserFoldersS3(entries, listed) ==
    IF ~listed THEN <<>>
    ELSE LET dirs == {entries[i].name : i \in {j \in DOMAIN entries : entries[j].is_dir}}
         IN SortedOrEmpty(SelectSeq(CommonPrefixes(dirs), IsUserFolder))

\* list_user_folders_mount on names; listed is FALSE when iterdir raised.
UserFoldersMount(entries, listed) ==
    IF ~listed THEN <<>>
    ELSE LET kept == SelectSeq(entries, LAMBDA e : e.is_dir /\ IsUserFolder(e.name))
         IN SortedOrEmpty([i \in DOMAIN kept |-> kept[i].name])

\* The listings of at most MaxListing children with distinct names, in any order.
Listings ==
    UNION {{l \in [1..n -> ChildEntries] :
               \A i, j \in 1..n : i # j => l[i].name # l[j].name}
              : n \in 0..MaxListing}

InitEnum ==
    /\ InitWith("ok")
    /\ dirEntries \in Listings
    /\ enumerated = NotEnumerated
    /\ MirrorIdle
    /\ SyncIdle

EnumerateS3 ==
    /\ enumerated.fn = "none"
    /\ \E listed \in BOOLEAN :
          enumerated' = [fn |-> "s3", ok |-> listed,
                         folders |-> UserFoldersS3(dirEntries, listed)]
    /\ UNCHANGED <<envVars, runVars, dirEntries, mirrorVars, syncVars, osVars>>

EnumerateMount ==
    /\ enumerated.fn = "none"
    /\ \E listed \in BOOLEAN :
          enumerated' = [fn |-> "mount", ok |-> listed,
                         folders |-> UserFoldersMount(dirEntries, listed)]
    /\ UNCHANGED <<envVars, runVars, dirEntries, mirrorVars, syncVars, osVars>>

NextEnum == EnumerateS3 \/ EnumerateMount

SpecEnum == InitEnum /\ [][NextEnum]_vars


\* ------------------------------------------------------------------ the mirrors
MaxObjects == 2      \* objects in one remote listing

\* Modification times; only their order matters.
MTimes == {1, 2}
\* The local copy's modification time, 0 when there is no local copy.
LocalStates == {0} \cup MTimes

\* "dir": the key ends with '/' (a directory on the mount); "taken_by": the
\* claim marker taken_by.txt; "folder_info": .folder_info.json; "file": any other.
ObjectKinds == {"file", "dir", "taken_by", "folder_info"}

RemoteObjects ==
    [kind : ObjectKinds \ {"dir"}, mtime : MTimes, local : LocalStates, fails : BOOLEAN]
        \cup {[kind |-> "dir", mtime |-> 1, local |-> 0, fails |-> FALSE]}

\* Mutant: the assignment script's mirrors pass over directory markers only.
Excluded_DirsOnly(fn) ==
    IF fn = "sync_s3_to_local_boto3" THEN {"dir", "folder_info"} ELSE {"dir"}

\* The objects each mirror passes over (lines 486, 545 and create_user_home 189).
Excluded(fn) ==
    IF fn = "sync_s3_to_local_boto3" THEN {"dir", "folder_info"} ELSE {"dir", "taken_by"}

\* create_user_home lines 200-204: fromtimestamp() gives the local copy's time
\* on the machine's clock, LastModified.replace(tzinfo=None) the remote time in UTC.
should_download(obj, offset) ==
    IF obj.local # 0 THEN obj.mtime > obj.local + offset ELSE TRUE

Transferred(acc, i) ==
    [acc EXCEPT !.downloaded = @ + 1, !.attempted = @ \cup {i},
                !.transferred = @ \cup {i}]

\* The loop body without "failed_files += 1".
S3ToLocalObject_FailureNotCounted(acc, i, obj) ==
    IF obj.kind \in Excluded(acc.fn) THEN acc
    ELSE IF obj.fails THEN [acc EXCEPT !.attempted = @ \cup {i}]
    ELSE Transferred(acc, i)

\* sync_s3_to_local, lines 484-506: the body of the loop for one object.
S3ToLocalObject(acc, i, obj) ==
    IF obj.kind \in Excluded(acc.fn) THEN acc
    ELSE IF obj.fails
    THEN [acc EXCEPT !.failed = @ + 1, !.attempted = @ \cup {i}]
    ELSE Transferred(acc, i)

\* sync_s3_to_local_boto3, lines 185-212: a failed download raises.
Boto3Object(acc, i, obj, offset) ==
    IF obj.kind \in Excluded(acc.fn) THEN acc
    ELSE IF ~should_download(obj, offset) THEN [acc EXCEPT !.skipped = @ + 1]
    ELSE IF obj.fails
    THEN [acc EXCEPT !.aborted = TRUE, !.attempted = @ \cup {i}]
    ELSE Transferred(acc, i)

\* sync_mount_to_local_from_path, lines 544-552: a failed copy2 raises into
\* the except clause of line 557.
MountObject(acc, i, obj) ==
    IF obj.kind \in Excluded(acc.fn) THEN acc
    ELSE IF obj.fails
    THEN [acc EXCEPT !.aborted = TRUE, !.attempted = @ \cup {i}]
    ELSE Transferred(acc, i)

MirrorObject(acc, i, obj, offset) ==
    IF acc.fn = "sync_s3_to_local" THEN S3ToLocalObject(acc, i, obj)
    ELSE IF acc.fn = "sync_s3_to_local_boto3" THEN Boto3Object(acc, i, obj, offset)
    ELSE MountObject(acc, i, obj)

\* The loop over the listing from object i on; an exception ends it.
RECURSIVE MirrorLoop(_, _, _, _)
MirrorLoop(acc, objs, i, offset) ==
    IF i > Len(objs) \/ acc.aborted THEN acc
    ELSE MirrorLoop(MirrorObject(acc, i, objs[i], offset), objs, i + 1, offset)

\* A whole run; listed is FALSE when the listing itself raised.
RunMirror(fn, objs, offset, listed) ==
    IF listed THEN MirrorLoop(MirrorStart(fn), objs, 1, offset)
    ELSE [MirrorStart(fn) EXCEPT !.aborted = TRUE]

InitMirror ==
    /\ InitWith("ok")
    /\ EnumIdle
    /\ remoteObjects \in UNION {[1..n -> RemoteObjects] : n \in 0..MaxObjects}
    /\ utcOffset \in {-1, 0, 1}
    /\ mirror = MirrorStart("none")
    /\ SyncIdle

NotMirrored == mirror.fn = "none"

Mirror(fn) ==
    /\ \E listed \in BOOLEAN :
          mirror' = RunMirror(fn, remoteObjects, utcOffset, listed)
    /\ UNCHANGED <<envVars, runVars, enumVars, remoteObjects, utcOffset, syncVars,
                   osVars>>

sync_s3_to_local == NotMirrored /\ Mirror("sync_s3_to_local")
sync_mount_to_local_from_path == NotMirrored /\ Mirror("sync_mount_to_local_from_path")
sync_s3_to_local_boto3 == NotMirrored /\ Mirror("sync_s3_to_local_boto3")

NextMirror == sync_s3_to_local \/ sync_mount_to_local_from_path \/ sync_s3_to_local_boto3

SpecMirror == InitMirror /\ [][NextMirror]_vars

\* ------------------------------------------------------------------ create_user_home_with_s3
\* The user's home in 'both' mode: remoteObjects[1] is the folder marker
\* ibd_root/<hash>/ (with .folder_info.json, written together with it),
\* remoteObjects[2] is user_mapping.yaml, the others are the user's files.
\* mtime is the object's LastModified, 0 when S3 has no such object; local is
\* the local file's modification time, 0 when there is no local file.
HomeFile(kind, mtime, local) ==
    [kind |-> kind, mtime |-> mtime, local |-> local, fails |-> FALSE]

\* Homes before the first run: the S3 folder may exist, and each file may be
\* on either side or on both, older or newer.
HomeFiles == {HomeFile("file", m, l) : m \in {0} \cup MTimes, l \in LocalStates} \
                 {HomeFile("file", 0, 0)}

Homes ==
    {<<HomeFile("dir", m, 0), HomeFile("user_mapping", 0, 0)>> \o files :
        m \in {0, 1}, files \in UNION {[1..n -> HomeFiles] : n \in 0..MaxObjects}}

\* The latest time in the home.
Latest(objs) ==
    LET times == {objs[i].mtime : i \in DOMAIN objs} \cup {objs[i].local : i \in DOMAIN objs}
    IN CHOOSE t \in times : \A u \in times : u <= t

\* create_user_home lines 258-266: head_object answers 404, or the times are
\* compared like in should_download.
should_upload(obj, offset) ==
    IF obj.mtime # 0 THEN obj.local + offset > obj.mtime ELSE TRUE

\* sync_s3_to_local_boto3, lines 185-212, on the object i of the listing: a
\* downloaded file is stamped with the time of the download.
DownloadObject(st, i, offset) ==
    LET obj == st.objs[i] IN
    IF obj.mtime = 0 \/ obj.kind \in Excluded("sync_s3_to_local_boto3") THEN st
    ELSE IF should_download(obj, offset)
    THEN [st EXCEPT !.objs[i].local = st.now, !.now = @ + 1,
                    !.downloaded = @ \cup {i}]
    ELSE [st EXCEPT !.skipped = @ + 1]

\* sync_local_to_s3_boto3, lines 248-277, on the local file i: an uploaded
\* object's LastModified is the time of the upload.
UploadObject(st, i, offset) ==
    LET obj == st.objs[i] IN
    IF obj.local = 0 THEN st
    ELSE IF should_upload(obj, offset)
    THEN [st EXCEPT !.objs[i].mtime = st.now, !.now = @ + 1,
                    !.uploaded = @ \cup {i}]
    ELSE [st EXCEPT !.skipped = @ + 1]

\* The loops from object i on.  Each intermediate state is bound as an element
\* of a one-element set, so that it is computed once.
RECURSIVE DownloadLoop(_, _, _)
DownloadLoop(st, i, offset) ==
    IF i > Len(st.objs) THEN st
    ELSE CHOOSE end \in {DownloadLoop(next, i + 1, offset) :
                             next \in {DownloadObject(st, i, offset)}} : TRUE

RECURSIVE UploadLoop(_, _, _)
UploadLoop(st, i, offset) ==
    IF i > Len(st.objs) THEN st
    ELSE CHOOSE end \in {UploadLoop(next, i + 1, offset) :
                             next \in {UploadObject(st, i, offset)}} : TRUE

\* Only the order of the times enters the comparisons, so between runs the
\* times are kept as their ranks.
Ranked(objs) ==
    LET times == ({objs[i].mtime : i \in DOMAIN objs}
                      \cup {objs[i].local : i \in DOMAIN objs}) \ {0}
        Rank(t) == IF t = 0 THEN 0 ELSE Cardinality({u \in times : u <= t})
    IN [i \in DOMAIN objs |->
           [objs[i] EXCEPT !.mtime = Rank(@), !.local = Rank(@)]]

\* create_user_home_with_s3(username, bucket, "both"), lines 296-365, when no
\* call fails: write user_mapping.yaml, create_s3_user_folder, download if the
\* folder existed, upload.
BothRun(objs, offset) ==
    LET t == Latest(objs) + 1
        mapped == [objs EXCEPT ![2].local = t]
        s3_folder_existed == \E i \in DOMAIN objs : objs[i].mtime # 0
        created == IF s3_folder_existed THEN mapped
                   ELSE [mapped EXCEPT ![1].mtime = t + 1]
        start == [objs |-> created, now |-> t + 2, downloaded |-> {},
                  uploaded |-> {}, skipped |-> 0]
    IN CHOOSE end \in
           {UploadLoop(down, 1, offset) :
               down \in {IF s3_folder_existed THEN DownloadLoop(st, 1, offset) ELSE st :
                            st \in {start}}} : TRUE

InitBoth ==
    /\ InitWith("ok")
    /\ EnumIdle
    /\ remoteObjects \in Homes
    /\ utcOffset = 0
    /\ mirror = MirrorStart("none")
    /\ SyncIdle

create_user_home_with_s3 ==
    /\ \E st \in {BothRun(remoteObjects, utcOffset)} :
          /\ remoteObjects' = Ranked(st.objs)
          /\ mirror' = [MirrorStart("create_user_home_with_s3") EXCEPT
                           !.downloaded = Cardinality(st.downloaded),
                           !.skipped = st.skipped,
                           !.attempted = st.downloaded \cup st.uploaded,
                           !.transferred = st.downloaded,
                           !.uploaded = st.uploaded]
    /\ UNCHANGED <<envVars, runVars, enumVars, utcOffset, syncVars, osVars>>

NextBoth == create_user_home_with_s3

SpecBoth == InitBoth /\ [][NextBoth]_vars

\* The setup is run again at every session launch.
FairBoth == SpecBoth /\ WF_vars(NextBoth)


\* ------------------------------------------------------------------ sync_completed_cases
MaxSyncRuns == 2     \* runs of sync_completed_cases in one behaviour
MaxTouches == 1      \* changes the user makes to completion flags in one behaviour

SyncModes == {"s3", "mount"}

\* get_completion_files_to_sync of a completed case: the completion flag, which
\* a completed case always has, and a segmentation file.
CompletionFiles == {"01_labeling_complete.txt", "alice_organs_1_ibd.nrrd"}

\* find_completed_cases: the case directories that hold the completion flag.
find_completed_cases == {c \in Cases : caseFlag[c] # 0}

\* initialize_s3_client_for_sync, then check_s3_mount_available (lines 291-306).
SyncMode(s3up, mountup) == IF s3up THEN "s3" ELSE IF mountup THEN "mount" ELSE "none"

\* sync_case_completion_artifacts and sync_case_to_mount: every file is tried,
\* a failed one is logged; "return uploaded_files > 0".
sync_case(failingFiles) == (CompletionFiles \ failingFiles) # {}

\* sync_tracking[case_name] = entry
Put(doc, c, entry) == [k \in DOMAIN doc \cup {c} |-> IF k = c THEN entry ELSE doc[k]]

\* sync_tracking.get(case_name, {}).get('last_synced_timestamp', 0)
last_synced(doc, c) == IF c \in DOMAIN doc THEN doc[c].last_synced_timestamp ELSE 0

\* load_sync_tracking: {} when the file is missing or cannot be read.
load_sync_tracking(file, readable) ==
    IF file.exists /\ readable THEN file ELSE NoTracking

\* Lines 326-375: the loop body for one completed case.  A failing write_text
\* of the sync flag raises out of sync_completed_cases.
SyncCase(acc, c, mode, failing, flagFails, now) ==
    IF caseFlag[c] <= last_synced(acc.doc, c) /\ acc.flags[c] # {}
    THEN [acc EXCEPT !.skipped = @ \cup {c}]
    ELSE IF sync_case(failing[c])
    THEN IF c \in flagFails
         THEN [acc EXCEPT !.raised = TRUE, !.attempted = @ \cup {c}]
         ELSE [acc EXCEPT !.flags[c] = @ \cup {mode},
                          !.flagged = @ \cup {c},
                          !.attempted = @ \cup {c},
                          !.synced = @ + 1,
                          !.doc = Put(@, c, [last_synced_timestamp |-> now,
                                             last_synced_iso |-> now,
                                             sync_successful |-> TRUE,
                                             sync_mode |-> mode])]
    ELSE [acc EXCEPT !.attempted = @ \cup {c},
                     !.doc = Put(@, c, [last_synced_timestamp |-> last_synced(acc.doc, c),
                                        last_attempted_iso |-> now,
                                        sync_successful |-> FALSE,
                                        sync_mode |-> mode])]

\* Lines 326-375: the loop over the completed cases from case c on, in
\* ascending order; an exception ends it.  The order in which iterdir() yields
\* the cases decides only which of them a run reaches before a failing flag
\* write cuts it short, and the cases are interchangeable.
RECURSIVE SyncLoop(_, _, _, _, _, _)
SyncLoop(acc, c, mode, failing, flagFails, now) ==
    IF c \notin Cases \/ acc.raised THEN acc
    ELSE SyncLoop(IF caseFlag[c] # 0
                  THEN SyncCase(acc, c, mode, failing, flagFails, now)
                  ELSE acc,
                  c + 1, mode, failing, flagFails, now)

InitSync ==
    /\ InitWith("ok") /\ EnumIdle /\ MirrorIdle
    /\ \E flags \in [Cases -> {0, 1}] : SyncStart(flags)

SyncFrame == UNCHANGED <<envVars, runVars, enumVars, mirrorVars, osVars>>

\* The user marks a case complete, or completes it again after more work.
MarkComplete ==
    /\ touches < MaxTouches
    /\ \E c \in Cases : caseFlag' = [caseFlag EXCEPT ![c] = clock]
    /\ clock' = clock + 1
    /\ touches' = touches + 1
    /\ UNCHANGED <<syncFlags, tracking, syncRuns, lastSync>>
    /\ SyncFrame

\* The user reopens a case: its completion flag is removed.
ReopenCase ==
    /\ touches < MaxTouches
    /\ \E c \in find_completed_cases : caseFlag' = [caseFlag EXCEPT ![c] = 0]
    /\ touches' = touches + 1
    /\ UNCHANGED <<syncFlags, tracking, clock, syncRuns, lastSync>>
    /\ SyncFrame

\* The inputs of a run that the code looks at: which backend answers (S3, else
\* the mount, else none), whether sync_tracking.json can be read and written.
BackendInputs == {<<TRUE, TRUE>>, <<FALSE, TRUE>>, <<FALSE, FALSE>>}
ReadInputs == IF tracking.exists THEN BOOLEAN ELSE {TRUE}

\* Lines 329-341: the completed cases that are not skipped as already synced.
NotYetSynced(doc) ==
    {c \in find_completed_cases :
        ~(caseFlag[c] <= last_synced(doc, c) /\ syncFlags[c] # {})}

\* The file transfers that fail, for the cases that are synced.
FailingInputs(cases) ==
    {[c \in Cases |-> IF c \in cases THEN g[c] ELSE {}] :
        g \in [cases -> SUBSET CompletionFiles]}

\* One run of sync_completed_cases (lines 274-391).
sync_completed_cases ==
    /\ syncRuns < MaxSyncRuns
    /\ syncRuns' = syncRuns + 1
    /\ clock' = clock + 1
    /\ \E up \in BackendInputs : \E readable \in ReadInputs :
       \E completed_cases \in {find_completed_cases} :
       \E sync_tracking \in {load_sync_tracking(tracking, readable)} :
        LET mode == SyncMode(up[1], up[2])
            working == completed_cases # {} /\ mode # "none"
        IN
        \E todo \in {IF working THEN NotYetSynced(sync_tracking.entries) ELSE {}} :
        \E failing \in FailingInputs(todo) :
        \E flagFails \in SUBSET {c \in todo : sync_case(failing[c])} :
        \E writable \in IF working THEN BOOLEAN ELSE {TRUE} :
        LET start == [doc |-> sync_tracking.entries, flags |-> syncFlags,
                      synced |-> 0, attempted |-> {}, skipped |-> {},
                      flagged |-> {}, raised |-> FALSE]
        IN
        \E acc \in {IF working
                    THEN SyncLoop(start, 1, mode, failing, flagFails, clock)
                    ELSE start} :
        \* a case the run never reached and a file it never wrote are not inputs
        /\ \A c \in Cases : c \notin acc.attempted => failing[c] = {}
        /\ flagFails \subseteq acc.attempted
        /\ acc.raised => writable
        /\ syncFlags' = acc.flags
        /\ tracking' = IF working /\ ~acc.raised /\ writable
                       THEN [exists |-> TRUE, entries |-> acc.doc,
                             sessions |-> sync_tracking.sessions + 1,
                             last_sync_mode |-> mode]
                       ELSE tracking
        /\ lastSync' = [ran |-> TRUE, mode |-> IF working THEN mode ELSE "none",
                        loaded |-> readable,
                        saved |-> working /\ ~acc.raised /\ writable,
                        raised |-> acc.raised,
                        returned |-> IF completed_cases = {} THEN TRUE
                                     ELSE IF mode = "none" THEN FALSE
                                     ELSE acc.synced > 0,
                        attempted |-> acc.attempted, skipped |-> acc.skipped,
                        failing |-> failing, flagged |-> acc.flagged,
                        doc |-> acc.doc,
                        before |-> IF tracking.exists THEN DOMAIN tracking.entries ELSE {},
                        \* when each case was last synced successfully, 0 if never
                        syncedAt |-> [c \in Cases |-> IF c \in acc.flagged THEN clock
                                                      ELSE lastSync.syncedAt[c]]]
    /\ UNCHANGED <<caseFlag, touches>>
    /\ SyncFrame

NextSync == MarkComplete \/ ReopenCase \/ sync_completed_cases

SpecSync == InitSync /\ [][NextSync]_vars


\* ------------------------------------------------------------------ vocabulary of the claims
Done(p) == pc[p] = "done"

\* The invocation of p has returned and nothing has changed since.
Returned(p) == Done(p) /\ quiet[p]

Username(p) == get_current_username(p)

\* The identity a marker names: its first line, trimmed and lowercased.
NamedBy(slot) == Lower(Strip(FirstLine(slot.body)))
Names(slot, p) == slot.exists /\ NamedBy(slot) = Username(p)

Min(S) == CHOOSE x \in S : \A y \in S : x <= y

Entries(p, op) == {i \in DOMAIN log[p] : log[p][i].op = op}
Checks(p) == Entries(p, "check1") \cup Entries(p, "check2")

\* Backend markers the current invocation of p has written.
Writes(p) ==
    {<<log[p][i].b, log[p][i].f>> : i \in {j \in Entries(p, "claim") : log[p][j].put}}

\* b was enumerated with a non-empty result; the first such backend.
Searched(p, b) == \E i \in Entries(p, "list") : log[p][i].b = b /\ log[p][i].ok
FirstSearched(p, b) == Searched(p, b) /\ (b = "mount" => ~Searched(p, "s3"))

\* At the start of the invocation: folders of b whose readable marker names p,
\* folders of b without a marker.
OwnAtStart(p, b) ==
    {f \in children[b] : Names(snap[p][b][f], p) /\ readErr[b][f] = "none"}
FreeAtStart(p, b) == {f \in children[b] : ~snap[p][b][f].exists}

ReadsFine(b) == \A f \in children[b] : readErr[b][f] = "none"
PutsFine(b) == \A f \in children[b] : <<b, f>> \notin putFail
LocalFine(b) == \A f \in children[b] : f \notin localFail


\* ------------------------------------------------------------------ claims
\* C1: if, on the backend being searched, some folder's (readable) marker
\* names the current identity, the invocation returns the lowest-numbered such
\* folder and writes no backend marker, even when a lower folder is unclaimed.
C1_ReturnsLowestOwnFolder ==
    \A p \in Procs : \A b \in Backends :
        (Returned(p) /\ FirstSearched(p, b) /\ OwnAtStart(p, b) # {})
            => /\ assigned_user[p] = Min(OwnAtStart(p, b))
               /\ Writes(p) = {}

\* C2: when no marker on the searched backend names the current identity and
\* every marker write (backend and local mirror) succeeds, the invocation
\* assigns the lowest-numbered folder that has no marker.
C2_AssignsLowestFreeFolder ==
    \A p \in Procs : \A b \in Backends :
        (/\ Returned(p) /\ FirstSearched(p, b)
         /\ \A f \in children[b] : ~Names(snap[p][b][f], p)
         /\ PutsFine(b) /\ LocalFine(b)
         /\ \A f \in FreeAtStart(p, b) : readErr[b][f] = "none"
         /\ FreeAtStart(p, b) # {})
            => assigned_user[p] = Min(FreeAtStart(p, b))

\* C3: when the folders below F are all claimed by other identities and F is
\* the first folder without a marker, the invocation writes the marker of F
\* and no other marker (reads and backend writes being healthy).
C3_WritesMarkerOfFOnly ==
    \A p \in Procs : \A b \in Backends :
        (/\ Returned(p) /\ FirstSearched(p, b)
         /\ FreeAtStart(p, b) # {}
         /\ \A f \in children[b] : ~Names(snap[p][b][f], p)
         /\ ReadsFine(b) /\ PutsFine(b) /\ ReadsFine("mount") /\ PutsFine("mount"))
            => Writes(p) = {<<b, Min(FreeAtStart(p, b))>>}

\* C4: a second invocation by the same identity, nothing having changed since
\* the first one claimed folder F, returns F and writes no backend marker.
C4_SecondRunIdempotent ==
    \A p \in Procs :
        (Returned(p) /\ prev[p].valid /\ prev[p].claimed # NoFolder)
            => /\ assigned_user[p] = prev[p].claimed
               /\ Writes(p) = {}


\* p found folder f of backend b unclaimed in its second pass.
ObservedFree(p, b, f) ==
    \E i \in Entries(p, "check2") :
        log[p][i].b = b /\ log[p][i].f = f /\ ~log[p][i].ok

\* C5: two interleaved invocations of distinct identities that both observed
\* folder f unclaimed in pass 2 both write its marker and both return f; the
\* marker names only the last writer, and the earlier writer's claim reported
\* success all the same.
C5_RaceLosesSilently ==
    \A p, q \in Procs : \A b \in Backends : \A f \in FolderNums :
        (/\ p # q /\ Done(p) /\ Done(q)
         /\ ObservedFree(p, b, f) /\ ObservedFree(q, b, f)
         /\ lastWriter[b][f] = q)
            => /\ assigned_user[p] = f /\ assigned_user[q] = f
               /\ marker[b][f] = Object(MarkerContent(Username(q)))
               /\ ~Names(marker[b][f], p)
               /\ \E i \in Entries(p, "claim") :
                     log[p][i].b = b /\ log[p][i].f = f /\ log[p][i].put /\ log[p][i].ok

C5_Witness ==
    \E p, q \in Procs : \E b \in Backends : \E f \in FolderNums :
        /\ p # q /\ Done(p) /\ Done(q)
        /\ ObservedFree(p, b, f) /\ ObservedFree(q, b, f)
        /\ assigned_user[p] = f /\ assigned_user[q] = f
        /\ ~Names(marker[b][f], p)

\* C6: when the S3 client initialises and the S3 listing is non-empty with
\* every folder claimed by other identities, the invocation reports failure
\* and does nothing on the mount backend.
C6_NoMountAfterReachableS3 ==
    \A p \in Procs :
        (/\ Returned(p) /\ Searched(p, "s3") /\ ReadsFine("s3")
         /\ \A f \in children["s3"] :
               snap[p]["s3"][f].exists /\ ~Names(snap[p]["s3"][f], p))
            => /\ assigned_user[p] = None
               /\ \A i \in DOMAIN log[p] : log[p][i].b # "mount"

\* The S3 client could not be initialised, or the S3 enumeration failed.
S3Failed(p) ==
    \/ \E i \in Entries(p, "init") : ~log[p][i].ok
    \/ /\ s3Status = "listfail"
       /\ \E i \in Entries(p, "list") : log[p][i].b = "s3" /\ ~log[p][i].ok

\* The mount is there and none of its reads or writes fails.
MountHealthy ==
    /\ mountStatus = "ok"
    /\ ReadsFine("mount") /\ PutsFine("mount") /\ LocalFine("mount")

\* C7: if S3 is unreachable or its enumeration fails, and the (healthy) mount
\* holds a folder owned by the identity or unclaimed, the invocation returns
\* the mount's assignment: the lowest own folder, else the lowest unclaimed
\* folder, which it claims; it does not return None.
C7_FailoverToMount ==
    \A p \in Procs :
        (Returned(p) /\ S3Failed(p) /\ MountHealthy)
            => LET own == OwnAtStart(p, "mount")
                   free == FreeAtStart(p, "mount")
               IN  IF own # {}
                   THEN assigned_user[p] = Min(own) /\ Writes(p) = {}
                   ELSE free # {} =>
                          /\ assigned_user[p] = Min(free)
                          /\ Writes(p) = {<<"mount", Min(free)>>}

C7_Witness ==
    \E p \in Procs :
        /\ Returned(p) /\ S3Failed(p) /\ MountHealthy
        /\ OwnAtStart(p, "mount") = {}
        /\ assigned_user[p] # None
        /\ Writes(p) = {<<"mount", assigned_user[p]>>}

C9_ClaimReturnsWriteOutcome ==
    \A p \in Procs : \A i \in Entries(p, "claim") : log[p][i].ok <=> log[p][i].put

\* The owner strings check_user_taken_* returns for a marker it cannot read.
Sentinels == {<<"error">>, <<"access_denied">>}

\* C10: a folder whose marker exists but cannot be read is reported claimed
\* with a sentinel owner, and the invocation never writes a marker to it.
C10_UnreadableMeansClaimed ==
    \A p \in Procs :
        /\ \A i \in Checks(p) :
              (log[p][i].exists /\ log[p][i].err # "none")
                  => log[p][i].ok /\ log[p][i].owner \in Sentinels
        /\ \A i \in Entries(p, "claim") :
              log[p][i].put => ~(log[p][i].exists /\ log[p][i].err # "none")

C10_Witness ==
    \E p \in Procs : \E i \in Entries(p, "check2") :
        /\ Returned(p)
        /\ log[p][i].exists /\ log[p][i].err # "none"
        /\ log[p][i].ok
        /\ <<log[p][i].b, log[p][i].f>> \notin Writes(p)

\* ------------------------------------------------------------------ C11
\* What the caller of the finished invocation observes: the returned value
\* with the final report, and the exit status of the process.
Outcome(p) == <<FinalReport(assigned_user[p]), ExitStatus(assigned_user[p])>>

\* The finished invocation listed both backends and found no folder on either.
NoFoldersRun(p) ==
    /\ Done(p)
    /\ \E i \in Entries(p, "list") : log[p][i].b = "s3" /\ ~log[p][i].ok
    /\ \E i \in Entries(p, "list") : log[p][i].b = "mount" /\ ~log[p][i].ok

\* The finished invocation found folders, and every folder it listed carried a
\* readable marker naming another identity.
AllClaimedRun(p) ==
    /\ Done(p)
    /\ \E i \in Entries(p, "list") : log[p][i].ok
    /\ Entries(p, "claim") = {}
    /\ \A i \in Checks(p) :
          /\ log[p][i].ok /\ log[p][i].exists /\ log[p][i].err = "none"
          /\ Lower(Strip(FirstLine(log[p][i].owner))) # Username(p)

\* C11: with both backends reachable, an invocation that found no user<N>
\* folder on either backend reports failure, and what its caller observes
\* differs from what the caller of an invocation observes that found folders
\* all claimed by another identity.
C11_NoFoldersDistinctFromAllClaimed ==
    \A p \in Procs :
        (NoFoldersRun(p) /\ s3Status = "ok" /\ mountStatus = "ok") =>
            /\ assigned_user[p] = None
            /\ \A q \in Procs \ {p} : AllClaimedRun(q) => Outcome(p) # Outcome(q)

\* ------------------------------------------------------------------ C12, C13
Enumerated == enumerated.fn # "none"
Returned_Names == {enumerated.folders[i] : i \in DOMAIN enumerated.folders}
Position(x) == CHOOSE i \in DOMAIN enumerated.folders : enumerated.folders[i] = x
Directories == {dirEntries[i].name : i \in {j \in DOMAIN dirEntries : dirEntries[j].is_dir}}

user1 == UserName(<<"1">>)
user2 == UserName(<<"2">>)
user3 == UserName(<<"3">>)
user10 == UserName(<<"1", "0">>)
user0 == UserName(<<"0">>)

\* C12: both enumerators return their folders in ascending order of the
\* numeric suffix: user2 comes before user10 whenever both are returned, and
\* the directories {user1, user3, user10} of a listing that succeeded are
\* returned as [user1, user3, user10].
C12_SortedByNumericSuffix ==
    Enumerated =>
        LET r == enumerated.folders IN
        /\ \A i, j \in DOMAIN r :
              i < j => IntOf(Suffix(r[i])) <= IntOf(Suffix(r[j]))
        /\ ({user2, user10} \subseteq Returned_Names) => Position(user2) < Position(user10)
        /\ (enumerated.ok /\ Directories = {user1, user3, user10}) =>
              r = <<user1, user3, user10>>

\* S3 listed user10 before user2, and the enumerator returned both.
C12_Witness ==
    /\ enumerated.fn = "s3"
    /\ {user2, user10} \subseteq Returned_Names
    /\ LexLess(user10, user2)

\* The form user<N>: the prefix 'user' and then the decimal digits of N.
DecimalForm(n) ==
    /\ Len(n) > Len(UserPrefix)
    /\ \A i \in DOMAIN n :
          IF i <= Len(UserPrefix) THEN n[i] = UserPrefix[i] ELSE n[i] \in DecimalDigits

\* The same with N positive.
PositiveForm(n) == DecimalForm(n) /\ \E i \in DOMAIN n : n[i] \in DecimalDigits \ {"0"}

\* The enumerator ran to its end: the listing succeeded and no key raised.
EnumeratorSucceeded ==
    /\ enumerated.ok
    /\ \A n \in Directories : IsUserFolder(n) => ~IntRaises(Suffix(n))

Finished == mirror.fn # "none" /\ ~mirror.aborted
Indices == DOMAIN remoteObjects
Eligible == {i \in Indices : remoteObjects[i].kind \notin Excluded(mirror.fn)}
NoTransferFails == \A i \in Eligible : ~remoteObjects[i].fails
\* The local copy is absent or strictly older than the remote object.
LocalStale(i) ==
    remoteObjects[i].local = 0 \/ remoteObjects[i].local < remoteObjects[i].mtime

\* C14: a finished run of a bucket-to-local mirror on a machine whose clock is
\* UTC, with no transfer failing, has transferred exactly the eligible files
\* whose local copy was absent or strictly older, and skipped the others.
C14_TransfersOnlyStaleFiles ==
    (/\ Finished
     /\ mirror.fn \in {"sync_s3_to_local", "sync_s3_to_local_boto3"}
     /\ utcOffset = 0
     /\ NoTransferFails) =>
        /\ mirror.transferred = {i \in Eligible : LocalStale(i)}
        /\ mirror.skipped = Cardinality({i \in Eligible : ~LocalStale(i)})

\* C15 as stated: when a bucket-to-local mirror finishes, transferred plus
\* skipped equals the number of eligible files, whatever transfers failed.
C15_TransferredPlusSkipped ==
    (Finished /\ mirror.fn \in {"sync_s3_to_local", "sync_s3_to_local_boto3"}) =>
        mirror.downloaded + mirror.skipped = Cardinality(Eligible)

\* C15 amended: when a bucket-to-local mirror finishes, transferred plus
\* skipped plus failed equals the number of eligible files; transferred plus
\* skipped alone equals it when no counted transfer failed.
C15_CountsWithFailures ==
    (Finished /\ mirror.fn \in {"sync_s3_to_local", "sync_s3_to_local_boto3"}) =>
        /\ mirror.downloaded + mirror.skipped + mirror.failed = Cardinality(Eligible)
        /\ mirror.downloaded = Cardinality(mirror.transferred)
        /\ mirror.failed = 0 => mirror.downloaded + mirror.skipped = Cardinality(Eligible)

\* A finished run in which one transfer failed and another succeeded.
C15_Witness ==
    /\ Finished
    /\ mirror.fn = "sync_s3_to_local"
    /\ mirror.failed > 0
    /\ mirror.downloaded > 0

\* C16: in a run of a resolver mirror whose listing succeeded, every eligible
\* file is attempted, also after the transfer of an earlier one failed.
C16_FailureDoesNotAbort ==
    (/\ mirror.fn \in {"sync_s3_to_local", "sync_mount_to_local_from_path"}
     /\ \/ ~mirror.aborted
        \/ mirror.attempted # {}) =>
        mirror.attempted = Eligible

\* ------------------------------------------------------------------ C17, C18
\* The cases with an entry in sync_tracking.json as persisted.
Tracked == IF tracking.exists THEN DOMAIN tracking.entries ELSE {}

\* C17: after a run of sync_completed_cases that was not cut short, a case it
\* tried to sync of which at least one completion file failed to transfer is
\* recorded with sync_successful = false, and the run wrote no
\* 02_synced_to_* flag for it.
C17_FailuresSurfaceInTracking ==
    (lastSync.ran /\ ~lastSync.raised) =>
        \A c \in lastSync.attempted :
            lastSync.failing[c] # {} =>
                /\ c \notin lastSync.flagged
                /\ ~lastSync.doc[c].sync_successful

\* C18: a run of sync_completed_cases that saved the tracking document left an
\* entry for every case it tried to sync, carrying the outcome and the mode of
\* this attempt; and every case that had an entry in the persisted document
\* before the latest run still has one.
C18_TrackingEntriesPersist ==
    lastSync.ran =>
        /\ lastSync.saved =>
              \A c \in lastSync.attempted :
                  /\ c \in Tracked
                  /\ tracking.entries[c].sync_mode = lastSync.mode
                  /\ tracking.entries[c].sync_successful = (c \in lastSync.flagged)
        /\ lastSync.before \subseteq Tracked

\* ------------------------------------------------------------------ C19, C20
\* Reads and writes of the backend's markers work, no folder of it was removed,
\* and every marker on it was written by an invocation of the resolver.
Reliable(b) ==
    /\ ReadsFine(b) /\ PutsFine(b)
    /\ children[b] = FolderNums
    /\ \A f \in FolderNums : marker[b][f].exists => lastWriter[b][f] \in Procs

\* The finished invocation was assigned a folder of backend b.
AssignedOn(p, b) == Done(p) /\ assigned_user[p] # None /\ backend[p] = b

\* C19: with invocations running one after another on a reliable backend, two
\* distinct identities are never assigned the same folder of it, and a marker
\* write never lands on a folder that already carried a marker.
C19_SequentialRunsNeverShare ==
    \A b \in Backends :
        /\ Reliable(b) =>
              \A p, q \in Procs :
                  (p # q /\ AssignedOn(p, b) /\ AssignedOn(q, b)) =>
                      assigned_user[p] # assigned_user[q]
        /\ \A p \in Procs : \A i \in Entries(p, "claim") :
              (log[p][i].b = b /\ log[p][i].put /\ log[p][i].err = "none") =>
                  ~log[p][i].exists

\* Both identities hold a folder of the same reliable backend, and the later
\* one passed over the folder marked by the earlier one.
C19_Witness ==
    \E b \in Backends : \E p, q \in Procs :
        /\ p # q /\ Reliable(b) /\ AssignedOn(p, b) /\ AssignedOn(q, b)
        /\ \E i \in Entries(q, "check2") :
              log[q][i].f = assigned_user[p] /\ log[q][i].exists
        /\ \E i \in Entries(q, "claim") : log[q][i].put

\* C20: when only one identity has ever run the resolver, nobody else wrote a
\* marker and the markers of the backend can be read, at most one folder of the
\* backend carries a marker naming that identity between its invocations.
C20_AtMostOneMarkerPerIdentity ==
    \A p \in Procs : \A b \in Backends :
        (/\ AllIdle
         /\ \A q \in Procs \ {p} : pc[q] = "idle"
         /\ ReadsFine(b)
         /\ \A f \in FolderNums : marker[b][f].exists => lastWriter[b][f] = p) =>
            Cardinality({f \in FolderNums : Names(marker[b][f], p)}) <= 1

\* ------------------------------------------------------------------ C21, C22
\* C21: a check reports a folder claimed if and only if its marker exists and
\* can be read, and for a folder without a marker it returns (False, None)
\* whatever error the backend raises.
C21_ClaimedIffMarkerReadable ==
    \A p \in Procs : \A i \in Checks(p) :
        /\ log[p][i].ok <=> (log[p][i].exists /\ log[p][i].err = "none")
        /\ ~log[p][i].exists => (~log[p][i].ok /\ log[p][i].owner = PyNone)

\* C21 (amended): a check returns (False, None) exactly when the read of the
\* marker is answered with not-found (no marker, no other error); when the
\* read raises another error it reports the folder claimed with a sentinel
\* owner, whether or not the marker exists; a marker that is read is reported
\* claimed with its content.
C21_ClaimedUnlessNotFound ==
    \A p \in Procs : \A i \in Checks(p) :
        /\ ~log[p][i].ok <=> (~log[p][i].exists /\ log[p][i].err = "none")
        /\ ~log[p][i].ok => log[p][i].owner = PyNone
        /\ log[p][i].err # "none" => (log[p][i].ok /\ log[p][i].owner \in Sentinels)
        /\ (log[p][i].exists /\ log[p][i].err = "none") =>
              (log[p][i].ok /\ log[p][i].owner # PyNone)

C21_Witness ==
    \E p \in Procs : \E i \in Checks(p) :
        /\ Returned(p)
        /\ ~log[p][i].exists /\ log[p][i].err # "none"
        /\ log[p][i].ok /\ log[p][i].owner \in Sentinels

\* C22: the first pass never takes a folder whose marker could not be read for
\* the identity's own: the owner returned for an unreadable marker never
\* equals the current identity.
C22_SentinelNeverMatchesIdentity ==
    \A p \in Procs : \A i \in Entries(p, "check1") :
        log[p][i].err # "none" =>
            ~OwnedByCurrent(log[p][i].ok, log[p][i].owner, Username(p))

\* ------------------------------------------------------------------ C23
\* The reads of the marker of folder f on backend b in one pass of the
\* invocation.
Reads(p, pass, b, f) == {i \in Entries(p, pass) : log[p][i].b = b /\ log[p][i].f = f}

\* The invocation went over to the mount at most once and read no marker
\* twice in one pass.
BoundedSearch(p) ==
    /\ Cardinality(Entries(p, "probe")) <= 1
    /\ \A b \in Backends : \A f \in FolderNums :
          /\ Cardinality(Reads(p, "check1", b, f)) <= 1
          /\ Cardinality(Reads(p, "check2", b, f)) <= 1

C24_MirrorFromAssigningBackend ==
    \A p \in Procs : \A i \in Entries(p, "mirror") : log[p][i].b = backend[p]

\* The session runs in the test environment.
TestEnvironment(p) ==
    SKIP_S3_OPERATIONS[p] = "1" \/ Username(p) = <<"imagebuildertest">>

\* C29: in the test environment an invocation does nothing on the S3 backend:
\* it does not list it, reads and writes none of its markers, and assigns on
\* the mount only.
C29_TestEnvironmentSkipsS3 ==
    \A p \in Procs :
        TestEnvironment(p) =>
            /\ \A i \in DOMAIN log[p] :
                  log[p][i].b = "s3" => (log[p][i].op = "init" /\ ~log[p][i].ok)
            /\ (pc[p] # "idle" /\ (Done(p) => quiet[p])) => marker["s3"] = snap[p]["s3"]
            /\ (Done(p) /\ assigned_user[p] # None) => backend[p] = "mount"

C29_Witness ==
    \E p \in Procs :
        /\ TestEnvironment(p) /\ Returned(p)
        /\ s3Status = "ok" /\ FreeAtStart(p, "s3") # {}
        /\ assigned_user[p] # None /\ backend[p] = "mount"
        /\ Names(marker["mount"][assigned_user[p]], p)

\* ------------------------------------------------------------------ C28
\* The mirrors of the assignment script.
AssignmentMirrors == {"sync_s3_to_local", "sync_mount_to_local_from_path"}

\* The kinds of the objects whose local path the run wrote or tried to write.
LocalWrites == {remoteObjects[i].kind : i \in mirror.attempted}

\* C28: a run of sync_s3_to_local or sync_mount_to_local_from_path, finished or
\* cut short, writes no claim marker and no directory marker into the local
\* workspace, so the local taken_by.txt is as it was before the run.
C28_MirrorsLeaveMarkersAlone ==
    mirror.fn \in AssignmentMirrors =>
        /\ "taken_by" \notin LocalWrites
        /\ "dir" \notin LocalWrites
        /\ mirror.transferred \subseteq mirror.attempted

C28_Witness ==
    /\ mirror.fn \in AssignmentMirrors
    /\ Finished
    /\ \E i, j \in Indices :
          /\ remoteObjects[i].kind = "taken_by"
          /\ remoteObjects[i].local # 0
          /\ remoteObjects[i].mtime > remoteObjects[i].local
          /\ remoteObjects[j].kind = "file"
          /\ j \in mirror.transferred

\* ------------------------------------------------------------------ C30
RanBoth == mirror.fn = "create_user_home_with_s3"

\* C30: within one run in 'both' mode no file that was just downloaded is
\* uploaded back, and repeated runs with no change from outside come to a run
\* that downloads nothing and uploads nothing.
C30_BothModeReachesFixpoint ==
    /\ [](RanBoth => mirror.transferred \cap mirror.uploaded = {})
    /\ <>(RanBoth /\ mirror.transferred = {} /\ mirror.uploaded = {})

\* ------------------------------------------------------------------ C25, C26, C27
\* The step is a run of sync_completed_cases.
SyncRun == syncRuns' # syncRuns

\* C25: a run that reached the cases and in which no sync attempt failed
\* returns True, also when every completed case was skipped as already synced.
C25_TrueWhenNoAttemptFailed ==
    (/\ lastSync.ran /\ ~lastSync.raised
     /\ lastSync.mode # "none"
     /\ lastSync.attempted \subseteq lastSync.flagged) => lastSync.returned

\* C26: a case that was synced successfully, and whose completion flag was not
\* modified since, is skipped by every later run that loads the tracking
\* document: the run transfers none of its files and leaves its entry as it is.
C26_SyncedCaseIsSkipped ==
    [][SyncRun =>
          \A c \in Cases :
              (/\ lastSync.syncedAt[c] # 0
               /\ caseFlag[c] # 0 /\ caseFlag[c] <= lastSync.syncedAt[c]
               /\ lastSync'.loaded) =>
                  /\ c \notin lastSync'.attempted
                  /\ c \in Tracked =>
                        (tracking'.exists /\ c \in DOMAIN tracking'.entries
                         /\ tracking'.entries[c] = tracking.entries[c])]_vars

\* C27: when the sync of a case fails in a run that saves the tracking
\* document, the case's entry keeps the last_synced_timestamp it had (0 if it
\* had none) with sync_successful false, and the next run does not skip it.
C27_FailedCaseKeepsTimestamp ==
    [][SyncRun =>
          \A c \in lastSync'.attempted \ lastSync'.flagged :
              (lastSync'.saved /\ ~sync_case(lastSync'.failing[c])) =>
                  /\ c \in DOMAIN tracking'.entries
                  /\ ~tracking'.entries[c].sync_successful
                  /\ tracking'.entries[c].last_synced_timestamp =
                        (IF c \in Tracked THEN tracking.entries[c].last_synced_timestamp
                         ELSE 0)
                  /\ ~(/\ caseFlag'[c] <= tracking'.entries[c].last_synced_timestamp
                       /\ syncFlags'[c] # {})]_vars

====
